---- MODULE Spec2Model ----
(***************************************************************************)
(* A model of security_camera.py (class SecurityCamera): the capture loop  *)
(* with its alert gate, the Telegram command loop, a live-view consumer    *)
(* and the storage manager with its two sweeps.                            *)
(*                                                                         *)
(* Time is counted in seconds on one clock (now).  time.time() and         *)
(* datetime.now() both read it; the clock is taken to be non-decreasing.   *)
(*                                                                         *)
(* Spec is the capture loop, the command loop, a live-view consumer and    *)
(* one cycle of the storage manager running together, in one of the        *)
(* environments of Scenarios.  StorageSpec is the storage manager working  *)
(* through a directory of evidence files while no new file is written.     *)
(***************************************************************************)
EXTENDS Integers, Sequences, FiniteSets, TLC

(***************************************************************************)
(* Bounds of the model (not program constants).                            *)
(***************************************************************************)
MaxFrames == 4
MaxTime == 170
StartTime == 100
TickShort == 10
TickLong == 50
MaxUpdates == 2
MaxFiles == 3
MaxSleeps == 1
MaxShortfall == 5
Today == 20
SizeSmall == 1
SizeLarge == 3

(***************************************************************************)
(* Program constants.                                                      *)
(***************************************************************************)
None == -1
notification_cooldown == 60
max_days_to_keep == 10
min_free_space_gb == 1
SecondsPerDay == 86400
SweepInterval == 3600

VARIABLES
    \* ---- SecurityCamera fields
    is_armed,                \* self.is_armed
    events_today,            \* self.events_today
    last_event_time,         \* self.last_event_time (None or a time)
    motion_detected,         \* self.motion_detected
    last_notification_time,  \* self.last_notification_time
    frame,                   \* self.frame: None or the number of the frame held
    lock,                    \* self.lock: "free" or the thread holding it
    files,                   \* the motion_*.jpg files of output_dir
    \* ---- environment
    now,                     \* the clock
    env,                     \* what the environment offers in this run
    free,                    \* free bytes of the evidence volume (model units)
    \* ---- _camera_loop thread
    cam_pc,                  \* position of the capture loop
    cam_frame,               \* number of the frame last read (local `frame`)
    image_path,              \* local image_path of _handle_motion_detection
    \* ---- _poll_telegram_commands thread
    cmd_pc,                  \* position of the command loop
    last_update_id,          \* local last_update_id
    batch,                   \* rest of response['result'] being iterated
    pending,                 \* updates the command source still holds
    next_id,                 \* id the command source gives the next update
    \* ---- generate_frames (one live-view consumer)
    web_pc,
    \* ---- _manage_storage thread
    ret_pc,                  \* position of the storage manager
    cutoff_date,             \* local cutoff_date of _cleanup_old_files
    todo,                    \* files the running sweep has still to visit
    files_removed,           \* local files_removed of the running sweep
    space_freed,             \* local cleaned_space / space_freed
    \* ---- history of what happened (observations only, never read by code)
    fire_times,              \* times at which the alert gate fired
    run_len,                 \* length so far of the current run of true signals
    run_ok,                  \* cooldown had elapsed at the run's first frame
    run_fired,               \* positions in the current run at which it fired
    event_log,               \* what the capture loop did for the last event
    cmd_log,                 \* what the handler of the last command sent
    stale_check,             \* the capture loop is past line 288 with a value of
                             \* is_armed read before the last /disarm
    photo_start, photo_seen, \* frame held when /photo began, frame it read
    web_start, web_seen,     \* same for the live-view consumer
    listed,                  \* files the age sweep of this cycle found
    deleted,                 \* files the age sweep of this cycle deleted
    failed,                  \* files whose stat or unlink raised in this cycle
    emg_listed,              \* files the emergency sweep of this cycle sorted
    evicted,                 \* files the emergency sweep deleted, in order,
                             \* each with the free space read just before
    ret_log                  \* summaries the storage manager sent this cycle

armVars == <<is_armed, stale_check>>
statVars == <<events_today, last_event_time>>
gateVars == <<motion_detected, last_notification_time>>
bufVars == <<frame, lock>>
camVars == <<cam_pc, cam_frame, image_path>>
cmdVars == <<cmd_pc, last_update_id, batch, pending, next_id>>
runVars == <<fire_times, run_len, run_ok, run_fired>>
photoVars == <<photo_start, photo_seen>>
webVars == <<web_pc, web_start, web_seen>>
retVars == <<ret_pc, cutoff_date, todo, files_removed, space_freed, free,
             listed, deleted, failed, emg_listed, evicted, ret_log>>

vars == <<armVars, statVars, gateVars, bufVars, files, now, env, camVars,
          cmdVars, runVars, event_log, cmd_log, photoVars, webVars, retVars>>

(***************************************************************************)
(* Evidence file names: motion_YYYYMMDD_HHMMSS.jpg.                        *)
(* strftime("%Y%m%d_%H%M%S") keeps the day and the second of the day; a    *)
(* name is modelled as the pair <<day, second of day>>.                    *)
(***************************************************************************)
Strftime(t) == <<t \div SecondsPerDay, t % SecondsPerDay>>

NoText == "(no text)"
Commands == {"/arm", "/disarm", "/photo", "/status", "/storage", "/other"}

\* __init__, lines 16-63.
CameraInit ==
    /\ is_armed = TRUE
    /\ events_today = 0
    /\ last_event_time = None
    /\ motion_detected = FALSE
    /\ last_notification_time = 0
    /\ frame = None
    /\ lock = "free"
    /\ cam_pc = "read"
    /\ cam_frame = 0
    /\ image_path = <<>>
    /\ cmd_pc = "poll"
    /\ last_update_id = 0
    /\ batch = <<>>
    /\ pending = <<>>
    /\ next_id = 1
    /\ web_pc = "start"
    /\ fire_times = <<>>
    /\ run_len = 0
    /\ run_ok = FALSE
    /\ run_fired = {}
    /\ event_log = <<>>
    /\ cmd_log = <<>>
    /\ stale_check = FALSE
    /\ photo_start = None
    /\ photo_seen = None
    /\ web_start = None
    /\ web_seen = None

\* The storage manager before its first cycle.
StorageIdle ==
    /\ ret_pc = "age_start"
    /\ cutoff_date = None
    /\ todo = {}
    /\ files_removed = 0
    /\ space_freed = 0
    /\ listed = {}
    /\ deleted = {}
    /\ failed = {}
    /\ emg_listed = {}
    /\ evicted = <<>>
    /\ ret_log = <<>>

(***************************************************************************)
(* What the environment offers in one run: how many frames the camera      *)
(* delivers before it fails, how far the clock goes, which commands the    *)
(* operator sends and how many, whether a live-view client connects, and   *)
(* whether the hourly cycle of the storage manager falls into the run.     *)
(***************************************************************************)
Scenarios ==
    { [frames |-> MaxFrames, until |-> MaxTime, updates |-> 0,
       texts |-> {}, viewer |-> FALSE, retention |-> FALSE],
      [frames |-> MaxFrames - 2, until |-> StartTime, updates |-> MaxUpdates,
       texts |-> Commands \cup {NoText}, viewer |-> FALSE, retention |-> FALSE],
      [frames |-> MaxFrames - 2, until |-> StartTime, updates |-> MaxUpdates - 1,
       texts |-> {"/photo"}, viewer |-> TRUE, retention |-> FALSE],
      [frames |-> MaxFrames - 3, until |-> StartTime, updates |-> MaxUpdates - 1,
       texts |-> {"/status"}, viewer |-> FALSE, retention |-> TRUE] }

Init ==
    /\ CameraInit
    /\ StorageIdle
    /\ files = {}
    /\ now = StartTime
    /\ free = 0
    /\ env \in Scenarios

(***************************************************************************)
(* Environment: the clock advances.                                        *)
(***************************************************************************)
\* The capture loop reads the clock at lines 306, 317 and 267 only; between
\* two reads an advance is the same as one just before the next read.
ClockReaders == {"gate", "save", "stamp"}

Tick ==
    /\ cam_pc \in ClockReaders
    /\ \E d \in {TickShort, TickLong} :
          /\ now + d <= env.until
          /\ now' = now + d
    /\ UNCHANGED <<armVars, statVars, gateVars, bufVars, files, env, camVars,
                   cmdVars, runVars, event_log, cmd_log, photoVars, webVars,
                   retVars>>

(***************************************************************************)
(* _camera_loop, lines 276-313.                                            *)
(***************************************************************************)
\* A capture loop that starts again after the video source has failed.
CameraReadReconnect ==
    /\ cam_pc \in {"read", "done"}
    /\ \E ret \in BOOLEAN :
          IF ret
          THEN /\ cam_frame < env.frames
               /\ cam_frame' = cam_frame + 1
               /\ cam_pc' = "lock"
          ELSE /\ cam_pc' = "done"
               /\ UNCHANGED cam_frame
    /\ event_log' = <<>>
    /\ UNCHANGED <<armVars, statVars, gateVars, bufVars, files, now, env,
                   image_path, cmdVars, runVars, cmd_log, photoVars, webVars,
                   retVars>>

\* ret, frame = self.camera.read(); if not ret: break
CameraRead ==
    /\ cam_pc = "read"
    /\ \E ret \in BOOLEAN :
          IF ret
          THEN /\ cam_frame < env.frames
               /\ cam_frame' = cam_frame + 1
               /\ cam_pc' = "lock"
          ELSE /\ cam_pc' = "done"
               /\ UNCHANGED cam_frame
    /\ event_log' = <<>>
    /\ UNCHANGED <<armVars, statVars, gateVars, bufVars, files, now, env,
                   image_path, cmdVars, runVars, cmd_log, photoVars, webVars,
                   retVars>>

\* A lock that lets every thread in.
MayEnterAlways(l) == TRUE

\* A thread may enter `with self.lock:` when no thread holds the lock.
MayEnter(l) == l = "free"

\* with self.lock:   (entry, line 284)
CameraAcquire ==
    /\ cam_pc = "lock"
    /\ MayEnter(lock)
    /\ lock' = "cam"
    /\ cam_pc' = "update"
    /\ UNCHANGED <<armVars, statVars, gateVars, frame, files, now, env, cam_frame,
                   image_path, cmdVars, runVars, event_log, cmd_log, photoVars,
                   webVars, retVars>>

\* self.frame = frame.copy()   and the exit of the with block
CameraUpdate ==
    /\ cam_pc = "update"
    /\ frame' = cam_frame
    /\ lock' = "free"
    /\ cam_pc' = "armed"
    /\ UNCHANGED <<armVars, statVars, gateVars, files, now, env, cam_frame,
                   image_path, cmdVars, runVars, event_log, cmd_log, photoVars,
                   webVars, retVars>>

\* A capture loop that runs detection when disarmed and skips it when armed.
CameraArmedCheckInverted ==
    /\ cam_pc = "armed"
    /\ cam_pc' = IF is_armed THEN "read" ELSE "gate"
    /\ UNCHANGED <<armVars, statVars, gateVars, bufVars, files, now, env, cam_frame,
                   image_path, cmdVars, runVars, event_log, cmd_log, photoVars,
                   webVars, retVars>>

\* A capture loop that goes on to detection whatever is_armed says.
CameraArmedCheckSkipped ==
    /\ cam_pc = "armed"
    /\ cam_pc' = "gate"
    /\ UNCHANGED <<armVars, statVars, gateVars, bufVars, files, now, env, cam_frame,
                   image_path, cmdVars, runVars, event_log, cmd_log, photoVars,
                   webVars, retVars>>

\* if not self.is_armed: continue
CameraArmedCheck ==
    /\ cam_pc = "armed"
    /\ cam_pc' = IF is_armed THEN "gate" ELSE "read"
    /\ UNCHANGED <<armVars, statVars, gateVars, bufVars, files, now, env, cam_frame,
                   image_path, cmdVars, runVars, event_log, cmd_log, photoVars,
                   webVars, retVars>>

\* A gate that also fires when exactly the cooldown has elapsed.
GateFiresAtCooldown(signal, current_time) ==
    /\ signal
    /\ ~motion_detected
    /\ (current_time - last_notification_time) >= notification_cooldown

\* The condition of lines 307-308.
GateFires(signal, current_time) ==
    /\ signal
    /\ ~motion_detected
    /\ (current_time - last_notification_time) > notification_cooldown

\* A gate that forgets it is in motion on every frame that does not fire.
GateHoldReset(signal) == FALSE

\* self.motion_detected after lines 307-313 when the gate does not fire.
GateHold(signal) == IF ~signal THEN FALSE ELSE motion_detected

\* Lines 292-313: the detector gives the raw signal, then the alert gate.
CameraGate ==
    /\ cam_pc = "gate"
    /\ \E signal \in BOOLEAN :
          /\ IF GateFires(signal, now)
             THEN /\ motion_detected' = TRUE
                  /\ last_notification_time' = now
                  /\ cam_pc' = "save"
                  /\ fire_times' = Append(fire_times, now)
             ELSE /\ motion_detected' = GateHold(signal)
                  /\ UNCHANGED <<last_notification_time, fire_times>>
                  /\ cam_pc' = "read"
          /\ run_len' = IF signal THEN run_len + 1 ELSE 0
          /\ run_ok' = IF signal /\ run_len = 0
                       THEN (now - last_notification_time) > notification_cooldown
                       ELSE run_ok
          /\ run_fired' = IF ~signal THEN run_fired
                          ELSE (IF run_len = 0 THEN {} ELSE run_fired)
                               \cup (IF GateFires(signal, now)
                                     THEN {run_len + 1} ELSE {})
    /\ stale_check' = FALSE
    /\ UNCHANGED <<is_armed, statVars, bufVars, files, now, env, cam_frame,
                   image_path, cmdVars, event_log, cmd_log, photoVars, webVars,
                   retVars>>

(***************************************************************************)
(* _handle_motion_detection, lines 315-324, and                            *)
(* send_telegram_notification, lines 257-270, run by the capture loop.     *)
(***************************************************************************)
FileSizes == {SizeSmall, SizeLarge}

\* Size of the JPEG cv2.imwrite makes of frame f (it depends on the picture).
EncodedSize(f) == IF f % 2 = 1 THEN SizeSmall ELSE SizeLarge

Exists(name) == \E f \in files : f.name = name

\* The file cv2.imwrite leaves at time t: its name is made from the clock
\* at line 317 and its modification time is the time of the write.
Written(t, sz) == [name |-> Strftime(t), mtime |-> t, size |-> sz]

\* The directory after writing (creating or overwriting) a file.
WriteFile(fs, t, sz) ==
    {f \in fs : f.name # Strftime(t)} \cup {Written(t, sz)}

\* timestamp = now.strftime(...); image_path = ...; cv2.imwrite(image_path, frame)
\* cv2.imwrite reports a failed write by returning False, which is not looked at.
CameraSave ==
    /\ cam_pc = "save"
    /\ image_path' = Strftime(now)
    /\ \E written \in BOOLEAN :
          IF written
          THEN /\ files' = WriteFile(files, now, EncodedSize(cam_frame))
               /\ event_log' = Append(event_log, "file")
          ELSE /\ UNCHANGED files
               /\ event_log' = Append(event_log, "file_failed")
    /\ cam_pc' = "text"
    /\ UNCHANGED <<armVars, statVars, gateVars, bufVars, now, env, cam_frame,
                   cmdVars, runVars, cmd_log, photoVars, webVars, retVars>>

\* self.send_telegram_message(message): an error of the post is caught inside.
CameraText ==
    /\ cam_pc = "text"
    /\ \E delivered \in BOOLEAN :
          event_log' = Append(event_log, IF delivered THEN "text" ELSE "text_lost")
    /\ cam_pc' = "photo"
    /\ UNCHANGED <<armVars, statVars, gateVars, bufVars, files, now, env, cam_frame,
                   image_path, cmdVars, runVars, cmd_log, photoVars, webVars,
                   retVars>>

\* A notification whose failed open is not caught: the exception unwinds
\* into the capture loop and ends it.
CameraPhotoUncaught ==
    /\ cam_pc = "photo"
    /\ IF Exists(image_path)
       THEN /\ \E delivered \in BOOLEAN :
                  event_log' = Append(event_log,
                                      IF delivered THEN "photo" ELSE "photo_lost")
            /\ cam_pc' = "inc"
            /\ UNCHANGED image_path
       ELSE /\ event_log' = Append(event_log, "open_failed")
            /\ cam_pc' = "done"
            /\ image_path' = <<>>
    /\ UNCHANGED <<armVars, statVars, gateVars, bufVars, files, now, env, cam_frame,
                   cmdVars, runVars, cmd_log, photoVars, webVars, retVars>>

\* with open(image_path, 'rb') as photo: self._send_telegram_photo(photo)
\* open raises when the file is not there; line 269 catches it.
CameraPhoto ==
    /\ cam_pc = "photo"
    /\ IF Exists(image_path)
       THEN /\ \E delivered \in BOOLEAN :
                  event_log' = Append(event_log,
                                      IF delivered THEN "photo" ELSE "photo_lost")
            /\ cam_pc' = "inc"
            /\ UNCHANGED image_path
       ELSE /\ event_log' = Append(event_log, "open_failed")
            /\ cam_pc' = "read"
            /\ image_path' = <<>>
    /\ UNCHANGED <<armVars, statVars, gateVars, bufVars, files, now, env, cam_frame,
                   cmdVars, runVars, cmd_log, photoVars, webVars, retVars>>

\* self.events_today += 1
CameraInc ==
    /\ cam_pc = "inc"
    /\ events_today' = events_today + 1
    /\ event_log' = Append(event_log, "inc")
    /\ cam_pc' = "stamp"
    /\ UNCHANGED <<armVars, last_event_time, gateVars, bufVars, files, now, env,
                   cam_frame, image_path, cmdVars, runVars, cmd_log, photoVars,
                   webVars, retVars>>

\* A notification that counts the event and does not record its time.
CameraStampSkipped ==
    /\ cam_pc = "stamp"
    /\ event_log' = Append(event_log, "stamp")
    /\ cam_pc' = "read"
    /\ image_path' = <<>>
    /\ UNCHANGED <<armVars, statVars, gateVars, bufVars, files, now, env,
                   cam_frame, cmdVars, runVars, cmd_log, photoVars, webVars,
                   retVars>>

\* self.last_event_time = datetime.datetime.now(), then both functions return
CameraStamp ==
    /\ cam_pc = "stamp"
    /\ last_event_time' = now
    /\ event_log' = Append(event_log, "stamp")
    /\ cam_pc' = "read"
    /\ image_path' = <<>>
    /\ UNCHANGED <<armVars, events_today, gateVars, bufVars, files, now, env,
                   cam_frame, cmdVars, runVars, cmd_log, photoVars, webVars,
                   retVars>>

Camera ==
    \/ CameraRead
    \/ CameraAcquire
    \/ CameraUpdate
    \/ CameraArmedCheck
    \/ CameraGate
    \/ CameraSave
    \/ CameraText
    \/ CameraPhoto
    \/ CameraInc
    \/ CameraStamp

(***************************************************************************)
(* The command source (Telegram getUpdates): it numbers the updates it     *)
(* receives and forgets those below the offset of a request.               *)
(***************************************************************************)
NewUpdate ==
    /\ next_id <= env.updates
    /\ \E text \in env.texts :
          pending' = Append(pending, [update_id |-> next_id, text |-> text])
    /\ next_id' = next_id + 1
    /\ UNCHANGED <<armVars, statVars, gateVars, bufVars, files, now, env, camVars,
                   cmd_pc, last_update_id, batch, runVars, event_log, cmd_log,
                   photoVars, webVars, retVars>>

\* The updates of q with update_id >= offset, in order.
FromOffset(q, offset) == SelectSeq(q, LAMBDA u : u.update_id >= offset)

(***************************************************************************)
(* _poll_telegram_commands, lines 146-163.                                 *)
(***************************************************************************)
\* requests.get(url, params={'offset': last_update_id + 1, ...}).json()
\* A failed request raises and is caught at line 161; an empty result
\* leaves nothing to iterate.  time.sleep(1) follows in each case.
CmdPoll ==
    /\ cmd_pc = "poll"
    /\ \E ok \in BOOLEAN :
          IF ok
          THEN /\ pending' = FromOffset(pending, last_update_id + 1)
               /\ batch' = FromOffset(pending, last_update_id + 1)
               /\ cmd_pc' = IF FromOffset(pending, last_update_id + 1) = <<>>
                            THEN "poll" ELSE "next"
          ELSE /\ UNCHANGED <<pending, batch>>
               /\ cmd_pc' = "poll"
    /\ UNCHANGED <<armVars, statVars, gateVars, bufVars, files, now, env, camVars,
                   last_update_id, next_id, runVars, event_log, cmd_log,
                   photoVars, webVars, retVars>>

\* for update in response['result']: (exhausted), then time.sleep(1)
CmdBatchEnd ==
    /\ cmd_pc = "next"
    /\ batch = <<>>
    /\ cmd_pc' = "poll"
    /\ cmd_log' = <<>>
    /\ UNCHANGED <<armVars, statVars, gateVars, bufVars, files, now, env, camVars,
                   last_update_id, batch, pending, next_id, runVars, event_log,
                   photoVars, webVars, retVars>>

\* A loop that hands the update to the handler and leaves the cursor.
TakesCursorKept(text) ==
    /\ cmd_pc = "next"
    /\ batch # <<>>
    /\ Head(batch).text = text
    /\ last_update_id' = last_update_id

\* The loop takes the next update: last_update_id = update['update_id'],
\* and its text goes to _handle_telegram_command.
Takes(text) ==
    /\ cmd_pc = "next"
    /\ batch # <<>>
    /\ Head(batch).text = text
    /\ last_update_id' = Head(batch).update_id

(***************************************************************************)
(* _handle_telegram_command, lines 165-182.                                *)
(***************************************************************************)
\* '/arm': self.is_armed = True, and the confirmation
CmdArm ==
    /\ Takes("/arm")
    /\ batch' = Tail(batch)
    /\ is_armed' = TRUE
    /\ stale_check' = FALSE
    /\ cmd_log' = <<[kind |-> "armed"]>>
    /\ UNCHANGED <<statVars, gateVars, bufVars, files, now, env, camVars, cmd_pc,
                   pending, next_id, runVars, event_log, photoVars, webVars,
                   retVars>>

\* '/disarm': self.is_armed = False, and the confirmation
CmdDisarm ==
    /\ Takes("/disarm")
    /\ batch' = Tail(batch)
    /\ is_armed' = FALSE
    /\ stale_check' = (cam_pc = "gate")
    /\ cmd_log' = <<[kind |-> "disarmed"]>>
    /\ UNCHANGED <<statVars, gateVars, bufVars, files, now, env, camVars, cmd_pc,
                   pending, next_id, runVars, event_log, photoVars, webVars,
                   retVars>>

\* '/status': _send_status, lines 200-214.  psutil may raise while the
\* report is composed; the exception ends the batch at line 161.
CmdStatus ==
    /\ Takes("/status")
    /\ \E raised \in BOOLEAN :
          IF raised
          THEN /\ batch' = <<>>
               /\ cmd_pc' = "poll"
               /\ cmd_log' = <<[kind |-> "raised", dropped |-> Len(batch) - 1]>>
          ELSE /\ batch' = Tail(batch)
               /\ cmd_pc' = "next"
               /\ cmd_log' = <<[kind |-> "status",
                                armed |-> is_armed,
                                events |-> events_today,
                                last |-> IF last_event_time # None
                                         THEN "time" ELSE "None"]>>
    /\ UNCHANGED <<armVars, statVars, gateVars, bufVars, files, now, env, camVars,
                   pending, next_id, runVars, event_log, photoVars, webVars,
                   retVars>>

\* '/storage': _send_storage_status, lines 184-198.  stat or psutil may
\* raise; the exception ends the batch at line 161.
CmdStorage ==
    /\ Takes("/storage")
    /\ \E raised \in BOOLEAN :
          IF raised
          THEN /\ batch' = <<>>
               /\ cmd_pc' = "poll"
               /\ cmd_log' = <<[kind |-> "raised", dropped |-> Len(batch) - 1]>>
          ELSE /\ batch' = Tail(batch)
               /\ cmd_pc' = "next"
               /\ cmd_log' = <<[kind |-> "storage",
                                total_files |-> Cardinality(files)]>>
    /\ UNCHANGED <<armVars, statVars, gateVars, bufVars, files, now, env, camVars,
                   pending, next_id, runVars, event_log, photoVars, webVars,
                   retVars>>

\* A handler that answers a text it does not know.
CmdIgnoreReplies ==
    /\ \E text \in {"/other", NoText} : Takes(text)
    /\ batch' = Tail(batch)
    /\ cmd_log' = <<[kind |-> "unknown"]>>
    /\ UNCHANGED <<armVars, statVars, gateVars, bufVars, files, now, env, camVars,
                   cmd_pc, pending, next_id, runVars, event_log, photoVars,
                   webVars, retVars>>

\* Any other text matches no branch; an update without text is not handled.
CmdIgnore ==
    /\ \E text \in {"/other", NoText} : Takes(text)
    /\ batch' = Tail(batch)
    /\ cmd_log' = <<>>
    /\ UNCHANGED <<armVars, statVars, gateVars, bufVars, files, now, env, camVars,
                   cmd_pc, pending, next_id, runVars, event_log, photoVars,
                   webVars, retVars>>

(***************************************************************************)
(* '/photo': _send_current_photo, lines 221-231.                           *)
(***************************************************************************)
CmdPhoto ==
    /\ Takes("/photo")
    /\ batch' = Tail(batch)
    /\ cmd_pc' = "photo_lock"
    /\ cmd_log' = <<>>
    /\ photo_start' = frame
    /\ UNCHANGED <<armVars, statVars, gateVars, bufVars, files, now, env, camVars,
                   pending, next_id, runVars, event_log, photo_seen, webVars,
                   retVars>>

\* with self.lock:   (entry, line 224)
PhotoAcquire ==
    /\ cmd_pc = "photo_lock"
    /\ MayEnter(lock)
    /\ lock' = "cmd"
    /\ cmd_pc' = "photo_read"
    /\ UNCHANGED <<armVars, statVars, gateVars, frame, files, now, env, camVars,
                   last_update_id, batch, pending, next_id, runVars, event_log,
                   cmd_log, photoVars, webVars, retVars>>

\* if self.frame is not None: cv2.imencode(...); BytesIO(...)
\* An exception of the encoding leaves the with block and is caught at
\* line 230, which sends the error text.
PhotoRead ==
    /\ cmd_pc = "photo_read"
    /\ photo_seen' = frame
    /\ \E encoded \in BOOLEAN :
          IF frame # None /\ ~encoded
          THEN /\ lock' = "free"
               /\ cmd_log' = <<[kind |-> "photo_error"]>>
               /\ cmd_pc' = "next"
               /\ photo_start' = None
          ELSE /\ cmd_pc' = "photo_send"
               /\ UNCHANGED <<lock, cmd_log, photo_start>>
    /\ UNCHANGED <<armVars, statVars, gateVars, frame, files, now, env, camVars,
                   last_update_id, batch, pending, next_id, runVars, event_log,
                   webVars, retVars>>

\* self._send_telegram_photo(bio) when a frame was held, and the exit of
\* the with block.
PhotoSend ==
    /\ cmd_pc = "photo_send"
    /\ IF photo_seen # None
       THEN \E delivered \in BOOLEAN :
               cmd_log' = <<[kind |-> IF delivered THEN "photo"
                                      ELSE "photo_lost"]>>
       ELSE UNCHANGED cmd_log
    /\ lock' = "free"
    /\ cmd_pc' = "next"
    /\ photo_start' = None
    /\ photo_seen' = None
    /\ UNCHANGED <<armVars, statVars, gateVars, frame, files, now, env, camVars,
                   last_update_id, batch, pending, next_id, runVars, event_log,
                   webVars, retVars>>

CommandLoop ==
    \/ CmdPoll
    \/ CmdBatchEnd
    \/ CmdArm
    \/ CmdDisarm
    \/ CmdStatus
    \/ CmdStorage
    \/ CmdIgnore
    \/ CmdPhoto
    \/ PhotoAcquire
    \/ PhotoRead
    \/ PhotoSend

(***************************************************************************)
(* generate_frames, lines 326-334: one live-view consumer.                 *)
(***************************************************************************)
\* while True:   (the next round begins)
WebStart ==
    /\ env.viewer
    /\ web_pc = "start"
    /\ web_start' = frame
    /\ web_pc' = "lock"
    /\ UNCHANGED <<armVars, statVars, gateVars, bufVars, files, now, env, camVars,
                   cmdVars, runVars, event_log, cmd_log, photoVars, web_seen,
                   retVars>>

\* with self.lock:   (entry, line 329)
WebAcquire ==
    /\ web_pc = "lock"
    /\ MayEnter(lock)
    /\ lock' = "web"
    /\ web_pc' = "read"
    /\ UNCHANGED <<armVars, statVars, gateVars, frame, files, now, env, camVars,
                   cmdVars, runVars, event_log, cmd_log, photoVars, web_start,
                   web_seen, retVars>>

\* if self.frame is not None: encode and yield (inside the with block)
WebRead ==
    /\ web_pc = "read"
    /\ web_seen' = frame
    /\ web_pc' = "yield"
    /\ UNCHANGED <<armVars, statVars, gateVars, bufVars, files, now, env, camVars,
                   cmdVars, runVars, event_log, cmd_log, photoVars, web_start,
                   retVars>>

\* The generator is resumed (or nothing was yielded): exit of the with block.
WebRelease ==
    /\ web_pc = "yield"
    /\ lock' = "free"
    /\ web_pc' = "start"
    /\ web_start' = None
    /\ web_seen' = None
    /\ UNCHANGED <<armVars, statVars, gateVars, frame, files, now, env, camVars,
                   cmdVars, runVars, event_log, cmd_log, photoVars, retVars>>

LiveView ==
    \/ WebStart
    \/ WebAcquire
    \/ WebRead
    \/ WebRelease


(***************************************************************************)
(* The storage manager: _manage_storage, lines 65-80, with                 *)
(* _cleanup_old_files, lines 82-109, and _emergency_cleanup, lines 111-144.*)
(*                                                                         *)
(* Free space is counted in units of 1/200 GB, file sizes in the same      *)
(* unit.  _get_free_space rounds to 1/100 GB (Python's round: to the       *)
(* nearest, a tie to the even neighbour); it is given here in 1/100 GB.    *)
(***************************************************************************)
camSide == <<armVars, statVars, gateVars, bufVars, env, camVars, cmdVars,
             runVars, event_log, cmd_log, photoVars, webVars>>

\* round(usage.free / (1024 * 1024 * 1024), 2), in hundredths of a GB
GetFreeSpace(units) ==
    LET q == units \div 2
    IN  IF units % 2 = 0 THEN q
        ELSE IF q % 2 = 0 THEN q ELSE q + 1

\* self._get_free_space() < self.min_free_space_gb
BelowMinimum(units) == GetFreeSpace(units) < min_free_space_gb * 100

\* datetime.strptime(file_path.stem.split('_')[1], '%Y%m%d'): midnight of
\* the day in the name, or None when the segment is no date (ValueError).
DateOf(name) ==
    IF name[1] = None THEN None ELSE name[1] * SecondsPerDay

\* An age test that keeps a file one day longer.
ExpiredADayLate(name, cutoff) == DateOf(name) + SecondsPerDay < cutoff

\* file_date < cutoff_date
Expired(name, cutoff) == DateOf(name) < cutoff

\* An error handler around the whole loop: nothing is left to visit.
AfterErrorAbort(remaining, f) == {}

\* except Exception inside the for loop (lines 100-101): the loop goes on
\* with the files not yet visited.
AfterError(remaining, f) == remaining \ {f}

\* A sort by the date in the file name.
SortKeyName(f) == DateOf(f.name)

\* key=lambda x: x.stat().st_mtime
SortKey(f) == f.mtime

\* sorted(glob, key=...): the orders of fs that ascend in the key (files of
\* equal key stay in the order glob gave them, which is any order).
Sorted(fs) ==
    LET n == Cardinality(fs)
    IN  {s \in [1..n -> fs] :
            /\ \A i, j \in 1..n : i < j => s[i] # s[j]
            /\ \A i, j \in 1..n : i < j => SortKey(s[i]) <= SortKey(s[j])}

\* cutoff_date = now - timedelta(days=max_days_to_keep); the counters; glob
AgeStart ==
    /\ env.retention
    /\ ret_pc = "age_start"
    /\ cutoff_date' = now - max_days_to_keep * SecondsPerDay
    /\ space_freed' = 0
    /\ files_removed' = 0
    /\ todo' = files
    /\ ret_pc' = "age_loop"
    /\ listed' = files
    /\ deleted' = {}
    /\ failed' = {}
    /\ emg_listed' = {}
    /\ evicted' = <<>>
    /\ ret_log' = <<>>
    /\ UNCHANGED <<camSide, files, now, free>>

\* One round of the for loop of lines 88-101, on any file glob has not yet
\* given.  A name without a date raises at line 92; stat or unlink may raise
\* at lines 95-96; both are caught at line 100.
AgeVisit ==
    /\ ret_pc = "age_loop"
    /\ \E f \in todo :
          IF DateOf(f.name) = None
          THEN /\ todo' = AfterError(todo, f)
               /\ UNCHANGED <<files, free, space_freed, files_removed,
                              deleted, failed>>
          ELSE IF Expired(f.name, cutoff_date)
          THEN \E removed \in BOOLEAN :
                  IF removed
                  THEN /\ files' = files \ {f}
                       /\ free' = free + f.size
                       /\ space_freed' = space_freed + f.size
                       /\ files_removed' = files_removed + 1
                       /\ deleted' = deleted \cup {f}
                       /\ todo' = todo \ {f}
                       /\ UNCHANGED failed
                  ELSE /\ failed' = failed \cup {f}
                       /\ todo' = AfterError(todo, f)
                       /\ UNCHANGED <<files, free, space_freed, files_removed,
                                      deleted>>
          ELSE /\ todo' = todo \ {f}
               /\ UNCHANGED <<files, free, space_freed, files_removed,
                              deleted, failed>>
    /\ UNCHANGED <<camSide, now, ret_pc, cutoff_date, listed, emg_listed,
                   evicted, ret_log>>

\* The loop is over: the summary of lines 103-109 when files were removed.
AgeDone ==
    /\ ret_pc = "age_loop"
    /\ todo = {}
    /\ ret_log' = IF files_removed > 0
                  THEN Append(ret_log, [kind |-> "cleanup",
                                        removed |-> files_removed,
                                        freed |-> space_freed])
                  ELSE ret_log
    /\ ret_pc' = "space_check"
    /\ UNCHANGED <<camSide, files, now, free, cutoff_date, todo, files_removed,
                   space_freed, listed, deleted, failed, emg_listed, evicted>>

\* if self._get_free_space() < self.min_free_space_gb: (line 73)
SpaceCheck ==
    /\ ret_pc = "space_check"
    /\ ret_pc' = IF BelowMinimum(free) THEN "emg_start" ELSE "sleep"
    /\ UNCHANGED <<camSide, files, now, free, cutoff_date, todo, files_removed,
                   space_freed, listed, deleted, failed, emg_listed, evicted,
                   ret_log>>

\* files = sorted(glob, key=mtime); the counters (lines 115-122).  A stat
\* that raises in the key is caught at line 143 and ends the sweep.
EmgStart ==
    /\ ret_pc = "emg_start"
    /\ \E sorted \in BOOLEAN :
          IF sorted
          THEN /\ \E s \in Sorted(files) : todo' = s
               /\ emg_listed' = files
               /\ files_removed' = 0
               /\ space_freed' = 0
               /\ ret_pc' = "emg_loop"
               /\ UNCHANGED failed
          ELSE /\ files # {}
               /\ \E f \in files : failed' = failed \cup {f}
               /\ ret_pc' = "sleep"
               /\ UNCHANGED <<todo, emg_listed, files_removed, space_freed>>
    /\ UNCHANGED <<camSide, files, now, free, cutoff_date, listed, deleted,
                   evicted, ret_log>>

\* One round of the for loop of lines 124-131 that does not break: free
\* space is read again and is below the minimum, the oldest file left is
\* removed.  A stat or unlink that raises is caught at line 143, outside
\* the loop: the sweep ends there, without its summary.
EmgVisit ==
    /\ ret_pc = "emg_loop"
    /\ todo # <<>>
    /\ BelowMinimum(free)
    /\ \E removed \in BOOLEAN :
          IF removed
          THEN /\ files' = files \ {Head(todo)}
               /\ free' = free + Head(todo).size
               /\ space_freed' = space_freed + Head(todo).size
               /\ files_removed' = files_removed + 1
               /\ evicted' = Append(evicted, [file |-> Head(todo),
                                              free_before |-> GetFreeSpace(free)])
               /\ todo' = Tail(todo)
               /\ UNCHANGED <<failed, ret_pc>>
          ELSE /\ failed' = failed \cup {Head(todo)}
               /\ ret_pc' = "sleep"
               /\ UNCHANGED <<files, free, space_freed, files_removed, evicted,
                              todo>>
    /\ UNCHANGED <<camSide, now, cutoff_date, listed, deleted, emg_listed,
                   ret_log>>

\* The loop ends (no file left) or breaks (free space is back): the
\* summary of lines 133-141 when files were removed.
EmgDone ==
    /\ ret_pc = "emg_loop"
    /\ todo = <<>> \/ ~BelowMinimum(free)
    /\ ret_log' = IF files_removed > 0
                  THEN Append(ret_log, [kind |-> "emergency",
                                        removed |-> files_removed,
                                        freed |-> space_freed,
                                        free_now |-> GetFreeSpace(free)])
                  ELSE ret_log
    /\ ret_pc' = "sleep"
    /\ UNCHANGED <<camSide, files, now, free, cutoff_date, todo, files_removed,
                   space_freed, listed, deleted, failed, emg_listed, evicted>>

\* time.sleep(3600), then the next cycle
Sleep ==
    /\ ret_pc = "sleep"
    /\ now + SweepInterval <= env.until
    /\ now' = now + SweepInterval
    /\ ret_pc' = "age_start"
    /\ UNCHANGED <<camSide, files, free, cutoff_date, todo, files_removed,
                   space_freed, listed, deleted, failed, emg_listed, evicted,
                   ret_log>>

(***************************************************************************)
(* The storage manager on a directory of evidence files.  The directory    *)
(* holds files the capture loop wrote on the days around the retention     *)
(* limit (at the first and the last second of the day), one such file      *)
(* whose modification time is recent (it was copied back), and one file    *)
(* that matches motion_*.jpg but carries no date.                          *)
(***************************************************************************)
TimesOfDay == {0, SecondsPerDay \div 2, SecondsPerDay - 1}

Candidates(day) ==
    { Written((day - k) * SecondsPerDay + tod,
              IF tod = 0 THEN SizeSmall ELSE SizeLarge) :
         k \in {max_days_to_keep + 1, max_days_to_keep, max_days_to_keep - 1},
         tod \in {0, SecondsPerDay - 1} }
    \cup { [name |-> <<day - (max_days_to_keep + 1), SecondsPerDay \div 2>>,
            mtime |-> (day - 1) * SecondsPerDay,
            size |-> SizeLarge],
           [name |-> <<None, 0>>,
            mtime |-> (day - (max_days_to_keep + 2)) * SecondsPerDay,
            size |-> SizeSmall] }

MinFreeUnits == min_free_space_gb * 200

StorageInit ==
    /\ CameraInit
    /\ StorageIdle
    /\ now \in {Today * SecondsPerDay + tod : tod \in TimesOfDay}
    /\ files \in {fs \in SUBSET Candidates(Today) : Cardinality(fs) <= MaxFiles}
    /\ free \in (MinFreeUnits - MaxShortfall)..(MinFreeUnits + 1)
    /\ env = [frames |-> 0, until |-> now + MaxSleeps * SweepInterval,
              updates |-> 0, texts |-> {}, viewer |-> FALSE,
              retention |-> TRUE]

\* One cycle of _manage_storage, up to its sleep.
Retention ==
    \/ AgeStart
    \/ AgeVisit
    \/ AgeDone
    \/ SpaceCheck
    \/ EmgStart
    \/ EmgVisit
    \/ EmgDone

StorageNext ==
    \/ Retention
    \/ Sleep

StorageSpec == StorageInit /\ [][StorageNext]_vars

(***************************************************************************)
(* The threads of the process together.  The clock of these runs does not  *)
(* reach the end of the storage manager's sleep: it runs one cycle.        *)
(***************************************************************************)
Next ==
    \/ Tick
    \/ Camera
    \/ NewUpdate
    \/ CommandLoop
    \/ LiveView
    \/ Retention

Spec == Init /\ [][Next]_vars

(***************************************************************************)
(* Properties of the capture loop, the alert gate and the frame buffer.    *)
(***************************************************************************)
Fired == Len(fire_times') > Len(fire_times)

\* C1: no two fired events have fire timestamps within
\* notification_cooldown (60 s) of each other, and last_notification_time
\* is the time of the latest fire.
C1_NoTwoFiresWithinCooldown ==
    /\ \A i, j \in DOMAIN fire_times :
          i < j => fire_times[j] - fire_times[i] > notification_cooldown
    /\ fire_times # <<>> =>
          last_notification_time = fire_times[Len(fire_times)]

\* Two events have fired, the second as soon as the cooldown allowed.
C1_Witness ==
    /\ Len(fire_times) = 2
    /\ fire_times[2] - fire_times[1] = notification_cooldown + TickShort

\* C2: a run of true raw signals whose first frame arrives after the
\* cooldown has elapsed fires exactly one event, on its first frame,
\* whatever its length.
C2_RunFiresOnceOnFirstFrame ==
    (run_len > 0 /\ run_ok) => run_fired = {1}

\* A false signal, then a run of three true signals that began after the
\* cooldown, with the clock gone past the cooldown again during the run.
C2_Witness ==
    /\ env.updates = 0
    /\ cam_frame = 4
    /\ cam_pc = "read"
    /\ run_len = 3
    /\ run_ok
    /\ run_fired = {1}
    /\ now - last_notification_time > notification_cooldown

\* C3: an event is emitted only on the first frame of a run of true
\* signals, and a run that begins within the cooldown emits no event at
\* all, however long it lasts.
C3_EdgeInCooldownDropped ==
    /\ run_fired \subseteq {1}
    /\ (run_len > 0 /\ ~run_ok) => run_fired = {}

\* The threads that are inside a `with self.lock:` block.
InBuffer ==
    {t \in {"cam", "cmd", "web"} :
        \/ t = "cam" /\ cam_pc = "update"
        \/ t = "cmd" /\ cmd_pc \in {"photo_read", "photo_send"}
        \/ t = "web" /\ web_pc \in {"read", "yield"}}

\* C4: updates and reads of the frame buffer exclude each other, and a
\* read that began after the k-th update observes the k-th frame or a later
\* one: the frame it observes is the one the buffer holds, which is None
\* only when no update has completed.
C4_ReadSeesLatestFrame ==
    /\ Cardinality(InBuffer) <= 1
    /\ InBuffer = IF lock = "free" THEN {} ELSE {lock}
    /\ cmd_pc = "photo_send" =>
          photo_seen = frame /\ photo_seen >= photo_start
    /\ web_pc = "yield" =>
          web_seen = frame /\ web_seen >= web_start

\* A /photo that began when frame 1 was held reads frame 2, stored by the
\* capture loop while the handler waited for the lock.
C4_Witness ==
    /\ cmd_pc = "photo_send"
    /\ photo_start = 1
    /\ photo_seen = 2

\* C5 (as claimed): between a /disarm and the next /arm no event fires.
C5_NoEventWhileDisarmed == [][Fired => is_armed]_vars

\* C5 (amended): while disarmed an event fires only for the one frame that
\* had passed the check of is_armed before the /disarm was handled; every
\* captured frame is stored in the buffer whatever is_armed says, and
\* /status and /photo are answered while disarmed.
C5_DisarmedFiresOnlyStaleFrame ==
    /\ [](cam_pc = "armed" => frame = cam_frame)
    /\ [][Fired => (is_armed \/ stale_check)]_vars
    /\ [][(/\ ~is_armed
           /\ cmd_pc = "next" /\ batch # <<>> /\ Head(batch).text = "/status"
           /\ cmd_pc' = "next" /\ batch' = Tail(batch))
          => (cmd_log' # <<>> /\ cmd_log'[1].kind = "status"
              /\ ~cmd_log'[1].armed)]_vars
    /\ [][(/\ ~is_armed
           /\ cmd_pc = "photo_send" /\ photo_seen # None
           /\ cmd_pc' = "next")
          => (cmd_log' # <<>> /\ cmd_log'[1].kind \in {"photo", "photo_lost"})]_vars

\* Disarmed, with no event fired: two frames were captured and stored, and
\* a /status sent after the /disarm has been answered.
C5_Witness ==
    /\ ~is_armed
    /\ ~stale_check
    /\ fire_times = <<>>
    /\ cam_pc = "armed"
    /\ cam_frame = 2
    /\ frame = 2
    /\ cmd_log # <<>>
    /\ cmd_log[1].kind = "status"

\* C6: whenever the capture loop is between frames (or has ended),
\* events_today equals the number of events the alert gate has fired.
C6_EventsTodayCountsFires ==
    cam_pc \in {"read", "done"} => events_today = Len(fire_times)

(***************************************************************************)
(* Properties of the storage manager.                                      *)
(***************************************************************************)
\* The day on which the running cycle's age sweep began.
SweepDay == (cutoff_date + max_days_to_keep * SecondsPerDay) \div SecondsPerDay

AgeSweepOver == ret_pc = "space_check"

\* C7: after an age sweep, a file dated max_days_to_keep + 1 days before
\* the day of the sweep has been deleted (unless its stat or unlink
\* raised) and a file dated max_days_to_keep - 1 days before it has been
\* kept, at whatever time of day the sweep ran.
C7_AgeSweepAroundLimit ==
    AgeSweepOver =>
       \A f \in listed :
          /\ (f.name[1] = SweepDay - (max_days_to_keep + 1) /\ f \notin failed)
                => f \notin files
          /\ f.name[1] = SweepDay - (max_days_to_keep - 1) => f \in files

\* A sweep that found a file of each kind, deleted the one and kept the
\* other.
C7_Witness ==
    /\ AgeSweepOver
    /\ \E f, g \in listed :
          /\ f.name[1] = SweepDay - (max_days_to_keep + 1)
          /\ g.name[1] = SweepDay - (max_days_to_keep - 1)
          /\ f \in deleted /\ f \notin files
          /\ g \in files

\* C8: the age sweep never deletes a file whose name carries no date, and
\* such a file does not stop it: when the sweep is over every listed file
\* with an expired date has been deleted (unless its stat or unlink
\* raised), in whatever order the files were visited.
C8_MalformedNameSkipped ==
    /\ ret_pc \in {"age_loop", "space_check"} =>
          \A f \in listed : DateOf(f.name) = None => f \in files
    /\ AgeSweepOver =>
          \A f \in listed :
             (/\ DateOf(f.name) # None
              /\ Expired(f.name, cutoff_date)
              /\ f \notin failed) => f \notin files

\* A sweep over a file without a date and two expired files: the first is
\* still there, the other two are gone.
C8_Witness ==
    /\ AgeSweepOver
    /\ \E f \in listed : DateOf(f.name) = None /\ f \in files
    /\ Cardinality(deleted) = 2
    /\ failed = {}

Evicted(n) == {evicted[j].file : j \in 1..n}

EmergencySummarySent ==
    \E i \in DOMAIN ret_log : ret_log[i].kind = "emergency"

\* C9: the emergency sweep deletes in ascending order of modification
\* time, reads free space before each deletion and deletes only when it
\* is below min_free_space_gb; a sweep that ran to its end stopped with
\* free space restored or with no listed file left.
C9_EmergencyOldestFirstUntilRestored ==
    /\ \A i \in DOMAIN evicted :
          /\ evicted[i].file \in emg_listed
          /\ \A g \in emg_listed \ Evicted(i) :
                evicted[i].file.mtime <= g.mtime
          /\ evicted[i].free_before < min_free_space_gb * 100
    /\ (ret_pc = "sleep" /\ EmergencySummarySent) =>
          (~BelowMinimum(free) \/ emg_listed = Evicted(Len(evicted)))

\* Three files were listed, the first deletion restored the free space and
\* the sweep stopped there.
C9_Witness ==
    /\ ret_pc = "sleep"
    /\ EmergencySummarySent
    /\ Cardinality(emg_listed) = 3
    /\ Len(evicted) = 1
    /\ ~BelowMinimum(free)
    /\ emg_listed \ Evicted(1) \subseteq files

\* C10: a stat or unlink that raises on one file does not end either
\* sweep: when the age sweep is over every expired file has been deleted or
\* has failed, and when the emergency sweep is over with free space still
\* below the minimum every listed file has been deleted or has failed.
C10_FailureDoesNotAbortSweep ==
    /\ AgeSweepOver =>
          \A f \in listed :
             (DateOf(f.name) # None /\ Expired(f.name, cutoff_date))
                => (f \notin files \/ f \in failed)
    /\ (ret_pc = "sleep" /\ emg_listed # {} /\ BelowMinimum(free)) =>
          \A f \in emg_listed : f \notin files \/ f \in failed

(***************************************************************************)
(* Properties of the capture loop's error handling and of its end.         *)
(***************************************************************************)
\* The last thing the capture loop did for the event it is handling.
LastStep == event_log[Len(event_log)]

\* C11: a failure of a peripheral action of an event (the write of the
\* evidence file, the text alert, the photo, the open of the file) never
\* ends the capture loop: after each of them the loop is at the step that
\* follows it, a failed open taking it back to the fetch of the next frame;
\* and the loop ends only at the fetch of a frame.
C11_PeripheralFailureNotFatal ==
    /\ [](event_log # <<>> =>
            /\ (LastStep = "file_failed" => cam_pc = "text")
            /\ (LastStep = "text_lost" => cam_pc = "photo")
            /\ (LastStep = "photo_lost" => cam_pc = "inc")
            /\ (LastStep = "open_failed" => cam_pc = "read"))
    /\ [][(cam_pc # "done" /\ cam_pc' = "done") => cam_pc = "read"]_vars

\* The event of frame 1 failed (it fired and was not counted), and the loop
\* has fetched frame 2 and is deciding on it.
C11_Witness ==
    /\ Len(fire_times) = 1
    /\ events_today = 0
    /\ cam_frame = 2
    /\ cam_pc = "gate"

\* C12: once the video source has failed the capture loop is over: the
\* frame buffer, the alert gate and the event counters never change again
\* and no event fires; the command loop can still take its next step
\* (unless it waits for the lock a live-view consumer holds) and so can
\* the storage manager until it sleeps.
C12_SourceFailureEndsCaptureOnly ==
    /\ [][cam_pc = "done" =>
            (/\ cam_pc' = "done"
             /\ UNCHANGED <<frame, cam_frame, fire_times, statVars, gateVars>>)]_vars
    /\ [](cam_pc = "done" =>
            /\ (ENABLED CommandLoop \/ (cmd_pc = "photo_lock" /\ lock = "web"))
            /\ ((env.retention /\ ret_pc # "sleep") => ENABLED Retention))

\* The capture loop has ended after one frame and one event; a command is
\* about to be handled and the age sweep is in the middle of its files.
C12_Witness ==
    /\ cam_pc = "done"
    /\ frame = 1
    /\ Len(fire_times) = 1
    /\ cmd_pc = "next"
    /\ batch # <<>>
    /\ ret_pc = "age_loop"
    /\ todo # {}

(***************************************************************************)
(* Properties of the command loop.                                         *)
(***************************************************************************)
\* C13: a /photo handled while no frame has ever been captured sends no
\* photo and sends an error notice; with a frame held it sends that frame
\* as a photo (unless the encoding raised).
C13_PhotoOrErrorNotice ==
    [][(cmd_pc = "photo_send" /\ cmd_pc' = "next") =>
          (/\ cmd_log' # <<>>
           /\ IF photo_seen = None
              THEN cmd_log'[1].kind = "photo_error"
              ELSE cmd_log'[1].kind \in {"photo", "photo_lost"})]_vars

Recognized == {"/arm", "/disarm", "/photo", "/status", "/storage"}

\* The command loop takes the update at the head of its batch, with this
\* text, and its handler returns.
Handling(text) ==
    /\ cmd_pc = "next"
    /\ batch # <<>>
    /\ Head(batch).text = text
    /\ batch' = Tail(batch)

\* C14: a text that is none of the recognized commands leaves is_armed,
\* events_today, last_event_time and the frame buffer as they are and
\* sends nothing; /arm leaves is_armed true and /disarm leaves it false,
\* whatever it was.
C14_UnrecognizedCommandIgnored ==
    /\ [][\A text \in (Commands \cup {NoText}) \ Recognized :
            Handling(text) =>
               (/\ UNCHANGED <<is_armed, statVars, frame>>
                /\ cmd_log' = <<>>
                /\ cmd_pc' = "next")]_vars
    /\ [][Handling("/arm") => is_armed']_vars
    /\ [][Handling("/disarm") => ~is_armed']_vars

\* A /disarm and then an unknown command have been handled: the system is
\* still disarmed and the second command sent nothing.
C14_Witness ==
    /\ Len(pending) = 2
    /\ pending[1].text = "/disarm"
    /\ pending[2].text = "/other"
    /\ last_update_id = 2
    /\ cmd_pc = "next"
    /\ batch = <<>>
    /\ ~is_armed
    /\ cmd_log = <<>>

(***************************************************************************)
(* Properties of the handling of an event by the capture loop.             *)
(***************************************************************************)
\* C15: the capture loop waits for nothing but the video source: when it
\* asks for the frame-buffer lock, the lock is not held by the command
\* loop across its photo send nor by a live-view consumer across the
\* hand-over of an encoded frame, and the capture loop is never itself in
\* a send to the message sink.
C15_CaptureWaitsOnlyForSource ==
    /\ ~(cam_pc = "lock" /\ cmd_pc = "photo_send" /\ photo_seen # None)
    /\ ~(cam_pc = "lock" /\ web_pc = "yield" /\ web_seen # None)
    /\ cam_pc \notin {"text", "photo"}

\* The place of a step in the handling of an event.
Rank(step) ==
    CASE step \in {"file", "file_failed"} -> 1
      [] step \in {"text", "text_lost"} -> 2
      [] step \in {"photo", "photo_lost", "open_failed"} -> 3
      [] step = "inc" -> 4
      [] step = "stamp" -> 5

\* C16: for a fired event the capture loop writes the evidence file under
\* the name made from the clock, sends the text alert, sends the file of
\* that name as a photo, increments events_today and sets
\* last_event_time, in this order and each at most once; events_today is
\* incremented only after the file of this event was written and sent.
C16_EventStepsInOrder ==
    /\ [](/\ \A i \in DOMAIN event_log : Rank(event_log[i]) = i
          /\ (cam_pc = "text" => Len(event_log) = 1)
          /\ (cam_pc = "photo" => Len(event_log) = 2)
          /\ (cam_pc = "inc" => Len(event_log) = 3)
          /\ (cam_pc = "stamp" => Len(event_log) = 4))
    /\ [][(cam_pc = "save" /\ cam_pc' = "text" /\ event_log'[1] = "file") =>
            (/\ image_path' = Strftime(now)
             /\ \E f \in files' :
                   /\ f.name = image_path'
                   /\ f.mtime = now
                   /\ files' \ {f} \subseteq files)]_vars
    /\ [][(cam_pc = "photo" /\ cam_pc' = "inc") => Exists(image_path)]_vars
    /\ [][events_today' # events_today =>
            (/\ events_today' = events_today + 1
             /\ cam_pc = "inc"
             /\ event_log[1] = "file"
             /\ event_log[3] \in {"photo", "photo_lost"})]_vars
    /\ [][last_event_time' # last_event_time =>
            (cam_pc = "stamp" /\ event_log[4] = "inc")]_vars

(***************************************************************************)
(* More properties of the age sweep, of the disarmed capture loop, of the  *)
(* event counters and of the command cursor.                               *)
(***************************************************************************)
\* The capture time a file name carries, in seconds.
CaptureTime(name) == name[1] * SecondsPerDay + name[2]

\* C17: the age sweep keeps every file whose capture time (the date and
\* the time of day in its name) is less than max_days_to_keep days before
\* the time at which the sweep began.
C17_YoungFileKept ==
    AgeSweepOver =>
       \A f \in listed :
          (DateOf(f.name) # None /\ CaptureTime(f.name) > cutoff_date)
             => f \in files

\* What the capture loop leaves alone on a frame it does not run detection on.
EventState == <<gateVars, statVars, files, fire_times>>

\* C18 (as claimed): while is_armed is false no step of the capture loop
\* changes the alert gate, events_today, last_event_time or the evidence
\* files.
C18_DisarmedLoopOnlyBuffer ==
    [][(~is_armed /\ cam_pc' # cam_pc) => UNCHANGED EventState]_vars

\* C18 (amended): a frame whose check of is_armed finds the system
\* disarmed changes only the frame buffer: up to the check the capture
\* loop leaves the alert gate, the counters and the files alone, and from
\* the check it goes back to fetch the next frame.
C18_FrameCheckedDisarmedOnlyBuffer ==
    /\ [][(cam_pc \in {"read", "lock", "update"} /\ cam_pc' # cam_pc) =>
            UNCHANGED EventState]_vars
    /\ [][(cam_pc = "armed" /\ ~is_armed /\ cam_pc' # cam_pc) =>
            (cam_pc' = "read" /\ UNCHANGED EventState)]_vars
    /\ [][(cam_pc = "update" /\ cam_pc' # cam_pc) => frame' = cam_frame]_vars

\* Frame 1 fired an event, the system was disarmed, and frame 2 has been
\* processed: it is in the buffer, and the gate is as frame 1 left it (a
\* frame that had reached the gate would have changed it or the run).
C18_Witness ==
    /\ ~is_armed
    /\ cam_pc = "read"
    /\ cam_frame = 2
    /\ frame = 2
    /\ motion_detected
    /\ run_len = 1
    /\ Len(fire_times) = 1

StatusSent == cmd_log # <<>> /\ cmd_log[1].kind = "status"

\* C19 (as claimed): in every state events_today > 0 implies that
\* last_event_time is set, and no status report shows a positive count
\* with a last event of None.
C19_CountImpliesLastEvent ==
    /\ events_today > 0 => last_event_time # None
    /\ StatusSent => ~(cmd_log[1].events > 0 /\ cmd_log[1].last = "None")

\* C19 (amended): events_today > 0 implies that last_event_time is set
\* except while the capture loop is between the increment and the
\* assignment of the time; last_event_time is set only when events_today
\* is positive; a status report composed outside that window never shows
\* a positive count with a last event of None.
C19_CountImpliesLastEventOutsideWindow ==
    /\ [](cam_pc # "stamp" => (events_today > 0 => last_event_time # None))
    /\ [](last_event_time # None => events_today > 0)
    /\ [][(Handling("/status") /\ cam_pc # "stamp" /\ cmd_log'[1].kind = "status")
            => ~(cmd_log'[1].events > 0 /\ cmd_log'[1].last = "None")]_vars

\* A status report composed after an event was counted and timed.
C19_Witness ==
    /\ StatusSent
    /\ cmd_log[1].events = 1
    /\ cmd_log[1].last = "time"
    /\ cam_pc # "stamp"

\* C20: the cursor never decreases; every update handed to the handler has
\* an id above the cursor and the cursor is set to it before the handler
\* runs, so the ids handled increase strictly and no update is handled
\* twice, whether a handler raised or a poll failed; an update above the
\* cursor is never lost by the source, and a poll that succeeds returns
\* all of them, those of a batch cut short by a raise included.
C20_CursorMonotoneAtMostOnce ==
    /\ [][last_update_id' >= last_update_id]_vars
    /\ [][(cmd_pc = "next" /\ batch # <<>> /\ batch' # batch) =>
            (/\ Head(batch).update_id > last_update_id
             /\ last_update_id' = Head(batch).update_id)]_vars
    /\ [](\A id \in (last_update_id + 1)..(next_id - 1) :
             \E i \in DOMAIN pending : pending[i].update_id = id)
    /\ [][(cmd_pc = "poll" /\ cmd_pc' = "next") =>
            \A id \in (last_update_id + 1)..(next_id - 1) :
               \E i \in DOMAIN batch' : batch'[i].update_id = id]_vars

\* The handler of update 1 raised with update 2 behind it in the batch;
\* the next poll has returned update 2, and not update 1.
C20_Witness ==
    /\ cmd_log # <<>>
    /\ cmd_log[1].kind = "raised"
    /\ cmd_log[1].dropped = 1
    /\ cmd_pc = "next"
    /\ last_update_id = 1
    /\ Len(batch) = 1
    /\ batch[1].update_id = 2

====
